---------------------------- MODULE Spec2Model ----------------------------
(***************************************************************************)
(* Model of src/app.py, the "Gemini Math Coach" Streamlit script.          *)
(*                                                                         *)
(* The script is executed top to bottom once per user event (a widget      *)
(* change or a button click).  st.session_state, the widget values and the *)
(* st.cache_data store survive from one run to the next; everything else   *)
(* is recomputed.  A button returns True only in the run that its click    *)
(* started.  One action below is one user event together with the script   *)
(* run (and the st.rerun() run, when the handler asks for one) it causes.  *)
(***************************************************************************)
EXTENDS Integers, Sequences, FiniteSets, TLC

VARIABLES
  api_key,                \* app.py:14-17  the credential ("" when none)
  sheet_url,              \* app.py:21     value of the "Problem Bank" input
  cache,                  \* app.py:32     st.cache_data store of load_problems
  current_problem_index,  \* app.py:46     st.session_state
  hint_level,             \* app.py:48     st.session_state
  chat_history,           \* app.py:50     st.session_state
  event,                  \* the user event the last run served
  notice,                 \* the status message the last run rendered
  controls,               \* the last run rendered Get Hint / Submit Answer
  next_button,            \* the last run rendered the Next Problem button
  user_ans,               \* app.py:130    value of the "Your Answer" input
  exception,              \* the last run ended with an uncaught exception
  request,                \* app.py:94-95  request the last event sent out
  chat_about              \* history variable: the problem texts that the
                          \* hint requests behind chat_history were about

vars == <<api_key, sheet_url, cache, current_problem_index, hint_level,
          chat_history, event, notice, controls, next_button, user_ans,
          exception, request, chat_about>>

-----------------------------------------------------------------------------
(* Bounds of the model.                                                    *)

\* longest answer text the learner types
MaxLen == 2

-----------------------------------------------------------------------------
(* Texts.  An answer is a sequence of characters, so that strip() and      *)
(* str() are computed and not assumed.                                     *)

Chars == {" ", "1", "."}

RECURSIVE TextsOfLen(_)
TextsOfLen(n) ==
  IF n = 0 THEN {<<>>}
  ELSE {Append(t, c) : t \in TextsOfLen(n - 1), c \in Chars}

Texts == UNION {TextsOfLen(n) : n \in 0..MaxLen}

IsSpace(c) == c = " "

\* str.strip(): drop the leading and the trailing whitespace
RECURSIVE LStrip(_)
LStrip(t) == IF t # <<>> /\ IsSpace(Head(t)) THEN LStrip(Tail(t)) ELSE t

RECURSIVE RStrip(_)
RStrip(t) ==
  IF t # <<>> /\ IsSpace(t[Len(t)]) THEN RStrip(SubSeq(t, 1, Len(t) - 1)) ELSE t

Strip(t) == RStrip(LStrip(t))

DigitChar == <<"0", "1", "2", "3", "4", "5", "6", "7", "8", "9">>

RECURSIVE Digits(_)
Digits(n) ==
  IF n < 10 THEN <<DigitChar[n + 1]>>
  ELSE Digits(n \div 10) \o <<DigitChar[(n % 10) + 1]>>

\* A cell of the answer column as pandas read it: the raw text of the cell
\* (object column; surrounding blanks are kept) or an int64.
StrCell(t) == [kind |-> "str", text |-> t,    val |-> 0]

IntCell(n) == [kind |-> "int", text |-> <<>>, val |-> n]

\* str(cell), app.py:133
Str(cell) ==
  CASE cell.kind = "str" -> cell.text
    [] cell.kind = "int" -> Digits(cell.val)

-----------------------------------------------------------------------------
(* The problem bank: what pd.read_csv can return for a locator.            *)

Row(t, a, e) == [problem_text |-> t, answer |-> a, explanation |-> e]

AllColumns == {"problem_text", "answer", "explanation"}

\* pd.DataFrame(), app.py:40
EmptyFrame == [columns |-> {}, rows |-> <<>>]

\* three problems, numeric answers (an int64 column)
SheetInts ==
  [columns |-> AllColumns,
   rows |-> <<Row("3-2?", IntCell(1), "difference"),
              Row("5+5?", IntCell(10), "sum"),
              Row("9+2?", IntCell(11), "sum")>>]

\* two problems, an answer column read as text because of its second cell;
\* the first cell has a trailing blank
SheetText ==
  [columns |-> AllColumns,
   rows |-> <<Row("1*1?", StrCell(<<"1", " ">>), "product"),
              Row("Which option?", StrCell(<<"a">>), "choice")>>]

\* a sheet with other column names: problem_text and explanation are missing
SheetOtherColumns ==
  [columns |-> {"question", "answer"},
   rows |-> <<Row("", IntCell(1), "")>>]

DefaultSheet == "default_sheet"

Urls == {DefaultSheet, "other_sheet"}

\* what the locators hold: the default one is the published bank, the other
\* one is a sheet of the teacher's
Sheets(url) ==
  IF url = DefaultSheet THEN {SheetInts} ELSE {SheetText, SheetOtherColumns}

\* pd.read_csv(url, on_bad_lines='skip'), app.py:36: a frame, or an exception
\* (the source is unreachable)
ReadCsvOutcomes(url) ==
  {[raised |-> FALSE, df |-> s] : s \in Sheets(url)}
    \cup {[raised |-> TRUE, df |-> EmptyFrame]}

\* the credential: none, or a key (from st.secrets or typed in the sidebar)
NoKey == ""

ApiKeys == {NoKey, "key"}

\* df.empty, app.py:53
Empty(df) == df.rows = <<>>

NotCached == [cached |-> FALSE, df |-> EmptyFrame, error |-> FALSE]

\* body of load_problems, app.py:33-40: the failure is caught, reported with
\* st.error and an empty frame is RETURNED, so st.cache_data stores it too
LoadProblemsBody(outcome) ==
  IF outcome.raised
    THEN [cached |-> TRUE, df |-> EmptyFrame, error |-> TRUE]
    ELSE [cached |-> TRUE, df |-> outcome.df, error |-> FALSE]

\* @st.cache_data, app.py:32: the body runs only on a miss
CacheAfter(c, url, outcome) ==
  IF c[url].cached THEN c ELSE [c EXCEPT ![url] = LoadProblemsBody(outcome)]

\* df = load_problems(sheet_url), app.py:42
LoadProblems(c, url, outcome) == CacheAfter(c, url, outcome)[url].df

-----------------------------------------------------------------------------
(* Session state and problem selection.                                    *)

\* app.py:46
InitialIndexBeforeFirst == 0 - 1

InitialIndex == 0

\* app.py:48
InitialHintLevel == 0

\* app.py:119
MaxHints == 3

\* app.py:119, the gate of the Get Hint handler
HintAllowedUpToMax(level) == level <= MaxHints

HintAllowed(level) == level < MaxHints

\* app.py:25-26 (and 139-140): the values a reset writes
ResetStateKeepsHistory == [hint_level |-> 0, chat_history |-> chat_history]

ResetState == [hint_level |-> 0, chat_history |-> <<>>]

\* app.py:53-57: an empty frame stops the run before the index is touched;
\* otherwise an index past the end goes back to 0
SelectIndex(i, df) ==
  IF Empty(df) THEN i
  ELSE IF i >= Len(df.rows) THEN 0 ELSE i

\* df.iloc[current_problem_index], app.py:59
CurrentProblem(i, df) == df.rows[i + 1]

\* the run gets past st.stop() (app.py:55) and past
\* current_problem['problem_text'] (app.py:106), so it draws the buttons
Rendered(df) == ~Empty(df) /\ "problem_text" \in df.columns

\* the run ends with an uncaught KeyError at app.py:106
RenderFails(df) == ~Empty(df) /\ "problem_text" \notin df.columns

-----------------------------------------------------------------------------
(* The hint engine, get_gemini_hint, app.py:62-99.                         *)

StuckMarker == "I'm stuck."

MissingKeyWarning == "Please enter an API Key in the sidebar."

TargetModelName == "gemini-1.5-flash"

HintReply == "What does the question ask for?"

\* what the remote call does: it answers, or it raises
RemoteOutcomes == {"reply", "failure"}

Message(role, content) == [role |-> role, content |-> content]

NoRequest == [sent |-> FALSE, model |-> "", level |-> 0,
              history |-> <<>>, message |-> <<>>]

HistoryAllUser(history) ==
  [k \in 1..Len(history) |->
     [role |-> "user", parts |-> <<history[k].content>>]]

\* app.py:89-92: one entry per transcript message, in order; "user" stays
\* "user", every other role becomes "model"
HistoryForGemini(history) ==
  [k \in 1..Len(history) |->
     [role  |-> IF history[k].role = "user" THEN "user" ELSE "model",
      parts |-> <<history[k].content>>]]

\* app.py:95: the f-string of the final message
FinalMessage(problem_text, level) ==
  <<"Problem: '", problem_text, "'. I am stuck. Give me a Level ">>
    \o Digits(level) \o <<" hint.">>

\* app.py:68-95: the request handed to the service (system instruction with
\* the level, model name, replayed history, final message)
HintRequest(problem_text, history, level) ==
  [sent |-> TRUE, model |-> TargetModelName, level |-> level,
   history |-> HistoryForGemini(history),
   message |-> FinalMessage(problem_text, level)]

\* app.py:99
ErrorText == "Error contacting Gemini (gemini-1.5-flash): failure"

GetGeminiHintWithoutKeyCheck(key, problem_text, history, level, remote) ==
  [text    |-> IF remote = "reply" THEN HintReply ELSE ErrorText,
   request |-> HintRequest(problem_text, history, level)]

\* app.py:62-99: the text returned and the request sent, if any
GetGeminiHint(key, problem_text, history, level, remote) ==
  IF key = NoKey
    THEN [text |-> MissingKeyWarning, request |-> NoRequest]
    ELSE [text    |-> IF remote = "reply" THEN HintReply ELSE ErrorText,
          request |-> HintRequest(problem_text, history, level)]

-----------------------------------------------------------------------------
(* The answer check and the buttons of the second column, app.py:129-143.  *)

\* app.py:133
AnswerCheck(text, answer) == Strip(text) = Str(answer)

NoButton == "none"

\* st.button(label): True only in the run started by a click on it
Button(pressed, label) == pressed = label

NextProblemAlwaysDrawn(pressed, text, df, i) == TRUE

\* app.py:131-137: the run reaches the line that draws "Next Problem" only
\* inside the branch of a pressed "Submit Answer" with a correct answer and
\* after the explanation was read
NextProblemReached(pressed, text, df, i) ==
  /\ Button(pressed, "Submit Answer")
  /\ "answer" \in df.columns
  /\ AnswerCheck(text, CurrentProblem(i, df).answer)
  /\ "explanation" \in df.columns

\* app.py:137: the body of "Next Problem" runs when the line is reached in
\* the run that the click on "Next Problem" started
NextProblemFires(pressed, text, df, i) ==
  NextProblemReached(pressed, text, df, i) /\ Button(pressed, "Next Problem")

-----------------------------------------------------------------------------
(* One run of the script.                                                  *)

\* pd.read_csv is called only on a cache miss
NoRead == [raised |-> FALSE, df |-> EmptyFrame]

Reads(c, url) == IF c[url].cached THEN {NoRead} ELSE ReadCsvOutcomes(url)

\* What a run leaves on the page, app.py:53-55 and 101-143, for the button
\* that started it.  A run that calls st.rerun() is followed by a run with
\* no button pressed, and that one draws the page.
Screen(df, i, pressed, answer_text) ==
  IF Empty(df)
    THEN [notice |-> "no_problems", controls |-> FALSE,
          next_button |-> FALSE, exception |-> FALSE]
  ELSE IF RenderFails(df)
    THEN [notice |-> "none", controls |-> FALSE,
          next_button |-> FALSE, exception |-> TRUE]
  ELSE IF Button(pressed, "Get Hint")
    THEN [notice |-> "no_more_hints", controls |-> TRUE,
          next_button |-> NextProblemReached(pressed, answer_text, df, i),
          exception |-> FALSE]
  ELSE IF Button(pressed, "Submit Answer")
    THEN IF "answer" \notin df.columns
           THEN [notice |-> "none", controls |-> TRUE,
                 next_button |-> FALSE, exception |-> TRUE]
         ELSE IF AnswerCheck(answer_text, CurrentProblem(i, df).answer)
           THEN [notice |-> "correct", controls |-> TRUE,
                 next_button |-> NextProblemReached(pressed, answer_text, df, i),
                 exception |-> "explanation" \notin df.columns]
         ELSE [notice |-> "try_again", controls |-> TRUE,
               next_button |-> FALSE, exception |-> FALSE]
  ELSE [notice |-> "none", controls |-> TRUE,
        next_button |-> NextProblemReached(pressed, answer_text, df, i),
        exception |-> FALSE]

Show(scr) ==
  /\ notice' = scr.notice
  /\ controls' = scr.controls
  /\ next_button' = scr.next_button
  /\ exception' = scr.exception

\* app.py:42-59 and the page, for a run in which no handler changes the
\* session: used by the events that only change a widget and by st.rerun()
PlainRun(url, outcome, i, pressed, answer_text) ==
  LET c  == CacheAfter(cache, url, outcome)
      df == LoadProblems(cache, url, outcome)
      j  == SelectIndex(i, df)
  IN  /\ cache' = c
      /\ current_problem_index' = j
      /\ Show(Screen(df, j, pressed, answer_text))

-----------------------------------------------------------------------------
(* The user events.                                                        *)

ChangeSheetUrlStartsOver(url, outcome) ==
  /\ url # sheet_url
  /\ sheet_url' = url
  /\ PlainRun(url, outcome, current_problem_index, NoButton, user_ans)
  /\ event' = "reload"
  /\ request' = NoRequest
  /\ hint_level' = ResetState.hint_level
  /\ chat_history' = ResetState.chat_history
  /\ chat_about' = {}
  /\ UNCHANGED <<api_key, user_ans>>

\* ReloadProblemBank: a new locator is typed into the sidebar, app.py:21
ChangeSheetUrl(url, outcome) ==
  /\ url # sheet_url
  /\ sheet_url' = url
  /\ PlainRun(url, outcome, current_problem_index, NoButton, user_ans)
  /\ event' = "reload"
  /\ request' = NoRequest
  /\ UNCHANGED <<api_key, hint_level, chat_history, user_ans, chat_about>>

\* the credential is typed into (or cleared from) the sidebar, app.py:17
EnterApiKey(key, outcome) ==
  /\ key # api_key
  /\ api_key' = key
  /\ PlainRun(sheet_url, outcome, current_problem_index, NoButton, user_ans)
  /\ event' = "key"
  /\ request' = NoRequest
  /\ UNCHANGED <<sheet_url, hint_level, chat_history, user_ans, chat_about>>

\* ResetSession, app.py:24-27, and the run st.rerun() starts
ResetSession(outcome) ==
  /\ hint_level' = ResetState.hint_level
  /\ chat_history' = ResetState.chat_history
  /\ chat_about' = {}
  /\ PlainRun(sheet_url, outcome, current_problem_index, NoButton, user_ans)
  /\ event' = "reset"
  /\ request' = NoRequest
  /\ UNCHANGED <<api_key, sheet_url, user_ans>>

\* RequestHint, app.py:118-127.  interrupted: another widget event arrives
\* while the run is between app.py:120 and the end of the st.spinner block
\* (the remote call); Streamlit then stops the run at the spinner's exit and
\* starts the run of that event, so app.py:123-125 are not executed.
GetHint(outcome, remote, interrupted) ==
  /\ controls
  /\ LET c  == CacheAfter(cache, sheet_url, outcome)
         df == LoadProblems(cache, sheet_url, outcome)
         i  == SelectIndex(current_problem_index, df)
     IN  IF HintAllowed(hint_level)
           THEN LET level == hint_level + 1
                    hint  == GetGeminiHint(api_key,
                               CurrentProblem(i, df).problem_text,
                               chat_history, level, remote)
                IN  /\ hint_level' = level
                    /\ request' = hint.request
                    /\ IF interrupted
                         THEN /\ chat_history' = chat_history
                              /\ chat_about' = chat_about
                              /\ cache' = c
                              /\ current_problem_index' = i
                              /\ UNCHANGED <<notice, controls, next_button,
                                             exception>>
                         ELSE /\ chat_history' = chat_history \o
                                   <<Message("user", StuckMarker),
                                     Message("assistant", hint.text)>>
                              /\ chat_about' = chat_about \cup
                                   {CurrentProblem(i, df).problem_text}
                              /\ PlainRun(sheet_url, outcome, i, NoButton,
                                          user_ans)
           ELSE /\ PlainRun(sheet_url, outcome, current_problem_index,
                            "Get Hint", user_ans)
                /\ request' = NoRequest
                /\ UNCHANGED <<hint_level, chat_history, chat_about>>
  /\ event' = "hint"
  /\ UNCHANGED <<api_key, sheet_url, user_ans>>

SubmitAnswerAdvances(outcome, answer_text) ==
  /\ controls
  /\ user_ans' = answer_text
  /\ LET df == LoadProblems(cache, sheet_url, outcome)
         i  == SelectIndex(current_problem_index, df)
     IN  IF NextProblemReached("Submit Answer", answer_text, df, i)
           THEN /\ hint_level' = ResetState.hint_level
                /\ chat_history' = ResetState.chat_history
                /\ chat_about' = {}
                /\ PlainRun(sheet_url, outcome, i + 1, NoButton, answer_text)
           ELSE /\ PlainRun(sheet_url, outcome, current_problem_index,
                            "Submit Answer", answer_text)
                /\ UNCHANGED <<hint_level, chat_history, chat_about>>
  /\ event' = "submit"
  /\ request' = NoRequest
  /\ UNCHANGED <<api_key, sheet_url>>

\* SubmitAnswer, app.py:130-143: the learner types answer_text and clicks
SubmitAnswer(outcome, answer_text) ==
  /\ controls
  /\ user_ans' = answer_text
  /\ PlainRun(sheet_url, outcome, current_problem_index, "Submit Answer",
              answer_text)
  /\ event' = "submit"
  /\ request' = NoRequest
  /\ UNCHANGED <<api_key, sheet_url, hint_level, chat_history, chat_about>>

\* AdvanceProblem: a click on the "Next Problem" button the page shows,
\* app.py:137-141
ClickNext(outcome) ==
  /\ next_button
  /\ LET df == LoadProblems(cache, sheet_url, outcome)
         i  == SelectIndex(current_problem_index, df)
     IN  IF Rendered(df) /\ NextProblemFires("Next Problem", user_ans, df, i)
           THEN /\ hint_level' = ResetState.hint_level
                /\ chat_history' = ResetState.chat_history
                /\ chat_about' = {}
                /\ PlainRun(sheet_url, outcome, i + 1, NoButton, user_ans)
           ELSE /\ PlainRun(sheet_url, outcome, current_problem_index,
                            "Next Problem", user_ans)
                /\ UNCHANGED <<hint_level, chat_history, chat_about>>
  /\ event' = "next"
  /\ request' = NoRequest
  /\ UNCHANGED <<api_key, sheet_url, user_ans>>

-----------------------------------------------------------------------------
(* The specification.                                                      *)

\* the first run of a session, app.py:14-59: nothing is cached, the
\* session state is created, the default sheet is loaded
Init ==
  \E key \in ApiKeys, outcome \in ReadCsvOutcomes(DefaultSheet) :
    LET c  == CacheAfter([u \in Urls |-> NotCached], DefaultSheet, outcome)
        df == c[DefaultSheet].df
        i  == SelectIndex(InitialIndex, df)
        scr == Screen(df, i, NoButton, <<>>)
    IN  /\ api_key = key
        /\ sheet_url = DefaultSheet
        /\ cache = c
        /\ current_problem_index = i
        /\ hint_level = InitialHintLevel
        /\ chat_history = <<>>
        /\ user_ans = <<>>
        /\ event = "start"
        /\ notice = scr.notice
        /\ controls = scr.controls
        /\ next_button = scr.next_button
        /\ exception = scr.exception
        /\ request = NoRequest
        /\ chat_about = {}

Next ==
  \/ \E url \in Urls : \E outcome \in Reads(cache, url) :
       ChangeSheetUrl(url, outcome)
  \/ \E key \in ApiKeys, outcome \in Reads(cache, sheet_url) :
       EnterApiKey(key, outcome)
  \/ \E outcome \in Reads(cache, sheet_url) : ResetSession(outcome)
  \/ \E outcome \in Reads(cache, sheet_url), remote \in RemoteOutcomes,
        interrupted \in BOOLEAN : GetHint(outcome, remote, interrupted)
  \/ \E outcome \in Reads(cache, sheet_url), answer_text \in Texts :
       SubmitAnswer(outcome, answer_text)
  \/ \E outcome \in Reads(cache, sheet_url) : ClickNext(outcome)

Spec == Init /\ [][Next]_vars

-----------------------------------------------------------------------------
(* Properties.                                                             *)

\* the problem set of the current run
Df == cache[sheet_url].df

\* C1: hint_level never exceeds 3, and a Get Hint click at hint_level = 3
\* changes neither hint_level, nor the transcript, nor the index, sends no
\* request to the hint service and reports that no more hints are available.
C1_HintCap ==
  /\ [](hint_level <= MaxHints)
  /\ [][(event' = "hint" /\ hint_level = MaxHints) =>
          /\ hint_level' = hint_level
          /\ chat_history' = chat_history
          /\ current_problem_index' = current_problem_index
          /\ ~request'.sent
          /\ notice' = "no_more_hints"]_vars

C1_Witness ==
  event = "hint" /\ hint_level = MaxHints /\ notice = "no_more_hints"
    /\ Len(chat_history) = 2 * MaxHints

\* C2: whenever the problem set is not empty, current_problem_index is a
\* position of it (0 <= index < N), after every event.
C2_IndexInRange ==
  ~Empty(Df) =>
    current_problem_index >= 0 /\ current_problem_index < Len(Df.rows)

C2_Witness ==
  event = "next" /\ Len(Df.rows) = 3 /\ current_problem_index \in 0..2

\* C3 (as claimed): a click on Next Problem after a correct answer moves to
\* the next problem (index + 1, back to 0 past the end), sets hint_level to
\* 0 and empties the transcript.
C3_AdvanceTakesEffect ==
  [][(event' = "next" /\ notice = "correct") =>
       /\ current_problem_index' =
            SelectIndex(current_problem_index + 1, Df)
       /\ hint_level' = 0
       /\ chat_history' = <<>>]_vars

\* C4: the Next Problem button is on the page only right after a correct
\* submission, and a click on it changes the index only then.
C4_AdvanceOnlyAfterCorrect ==
  /\ [](next_button => notice = "correct")
  /\ [][(event' = "next" /\ current_problem_index' # current_problem_index)
          => notice = "correct"]_vars

C4_Witness ==
  event = "submit" /\ notice = "try_again" /\ controls /\ ~next_button

\* C5: Reset Session can be clicked in every state; it leaves hint_level = 0
\* and an empty transcript and changes neither the index nor the problem set.
ResetEnabled == ENABLED (\E outcome \in Reads(cache, sheet_url) : ResetSession(outcome))

C5_Reset ==
  /\ []ResetEnabled
  /\ [][event' = "reset" =>
          /\ hint_level' = 0
          /\ chat_history' = <<>>
          /\ current_problem_index' = current_problem_index
          /\ sheet_url' = sheet_url
          /\ cache' = cache]_vars

C5_Witness ==
  event = "reset" /\ Empty(Df) /\ hint_level = 0 /\ chat_history = <<>>

\* C6 (as claimed): hint_level stays, grows or becomes 0 in every step, and
\* it goes from a positive value to 0 exactly in the steps that end the
\* attempt: Next Problem after a correct answer, or Reset Session.
C6_HintLevelResetsExactlyAtAttemptEnd ==
  [][/\ (hint_level' >= hint_level \/ hint_level' = 0)
     /\ (hint_level > 0 =>
           ((hint_level' = 0) <=>
              (event' = "reset" \/ (event' = "next" /\ notice = "correct"))))
    ]_vars

\* C7 (as claimed): a submission is reported correct exactly when the
\* submitted text and the expected answer text are equal after both are
\* stripped of surrounding whitespace.
C7_CheckTrimsBothSides ==
  (event = "submit" /\ Rendered(Df) /\ "answer" \in Df.columns) =>
    ((notice = "correct") <=>
       (Strip(user_ans) =
          Strip(Str(CurrentProblem(current_problem_index, Df).answer))))

\* C8 (as claimed): with no credential, a Get Hint click changes neither
\* hint_level nor the transcript.
C8_NoCredentialNoMutation ==
  [][(event' = "hint" /\ api_key = NoKey) =>
       (hint_level' = hint_level /\ chat_history' = chat_history)]_vars

\* C9 (as claimed): an event applies completely or not at all: whenever
\* hint_level is incremented, the student marker and the coach message of
\* that hint are appended to the transcript in the same step.
C9_HintStepIsAtomic ==
  [][(hint_level' = hint_level + 1) =>
       /\ Len(chat_history') = Len(chat_history) + 2
       /\ SubSeq(chat_history', 1, Len(chat_history)) = chat_history
       /\ chat_history'[Len(chat_history) + 1] = Message("user", StuckMarker)
       /\ chat_history'[Len(chat_history) + 2].role = "assistant"]_vars

\* C10 (as claimed): for a transcript of k (student, coach) pairs the
\* request carries exactly k prior turns.
C10_KTurnsForKPairs ==
  [][request'.sent => Len(request'.history) = Len(chat_history) \div 2]_vars

\* C10 (amended): a request is sent exactly by a Get Hint click below the
\* hint cap with a credential configured.  For a transcript of k (student,
\* coach) pairs it carries exactly 2k prior turns, one per transcript message
\* and in transcript order, each with the message's content, the student
\* messages under the role "user" and the coach messages under the role
\* "model"; its one final message holds the text of the current problem and
\* the level asked for, which is the incremented hint_level.
C10_Request ==
  [][/\ request'.sent <=>
          (event' = "hint" /\ hint_level < MaxHints /\ api_key # NoKey)
     /\ request'.sent =>
          /\ Len(chat_history) % 2 = 0
          /\ Len(request'.history) = Len(chat_history)
          /\ \A k \in 1..Len(chat_history) :
               /\ request'.history[k].parts = <<chat_history[k].content>>
               /\ request'.history[k].role =
                    (IF k % 2 = 1 THEN "user" ELSE "model")
               /\ chat_history[k].role =
                    (IF k % 2 = 1 THEN "user" ELSE "assistant")
          /\ \E j \in DOMAIN request'.message :
               request'.message[j] =
                 CurrentProblem(current_problem_index, Df).problem_text
          /\ \E j \in DOMAIN request'.message :
               <<request'.message[j]>> = Digits(hint_level')
          /\ request'.level = hint_level'
          /\ hint_level' = hint_level + 1]_vars

C10_Witness ==
  request.sent /\ Len(request.history) = 4 /\ hint_level = 3

\* C11: a reload that yields a non-empty problem set makes that set the
\* current one, keeps the index when it is a position of the new set and
\* sets it to 0 otherwise, and changes neither hint_level nor the transcript.
C11_Reload ==
  [][(event' = "reload" /\ ~Empty(Df')) =>
       /\ Df' \in Sheets(sheet_url')
       /\ current_problem_index' =
            (IF current_problem_index < Len(Df'.rows)
               THEN current_problem_index ELSE 0)
       /\ hint_level' = hint_level
       /\ chat_history' = chat_history]_vars

C11_Witness ==
  event = "reload" /\ ~Empty(Df) /\ hint_level = MaxHints
    /\ Len(chat_history) = 2 * MaxHints

\* C12 (as claimed): when the load of the current locator failed, or the
\* sheet lacks one of the required columns problem_text, answer and
\* explanation, the problem set is empty, the load error is reported and no
\* run ends with an uncaught exception.
C12_FailedLoadIsEmptyAndReported ==
  (cache[sheet_url].error \/ ~(AllColumns \subseteq Df.columns)) =>
    (Empty(Df) /\ cache[sheet_url].error /\ ~exception)

\* a Get Hint click below the hint cap, with a credential, whose remote call
\* fails
HintWithRemoteFailure ==
  /\ HintAllowed(hint_level)
  /\ api_key # NoKey
  /\ \E outcome \in Reads(cache, sheet_url), interrupted \in BOOLEAN :
       GetHint(outcome, "failure", interrupted)

\* C13 (as claimed): a Get Hint click below the hint cap whose remote call
\* fails completes as a normal hint: hint_level grows by one and the student
\* marker and the error string, as the coach message, are appended.
C13_RemoteFailureIsAHint ==
  [][HintWithRemoteFailure =>
       /\ hint_level' = hint_level + 1
       /\ chat_history' = chat_history \o
            <<Message("user", StuckMarker), Message("assistant", ErrorText)>>
    ]_vars

\* C14: with no credential, a Get Hint click below the hint cap sends no
\* request to the service, and the coach message it appends is the fixed
\* warning, whatever the problem, the transcript and the level.
C14_NoCredentialNoCall ==
  [][(event' = "hint" /\ HintAllowed(hint_level) /\ api_key = NoKey) =>
       /\ ~request'.sent
       /\ chat_history' # chat_history =>
            chat_history'[Len(chat_history')] =
              Message("assistant", MissingKeyWarning)]_vars

C14_Witness ==
  /\ event = "hint" /\ api_key = NoKey /\ ~request.sent
  /\ hint_level = MaxHints /\ Len(chat_history) = 2 * MaxHints
  /\ chat_history[2 * MaxHints].content = MissingKeyWarning
  /\ chat_history[2].content = HintReply
  /\ current_problem_index = 0 /\ Df = SheetText

\* C15 (as claimed): a Get Hint click below the hint cap adds one to
\* hint_level and appends exactly two messages to the transcript, the
\* student marker and then a coach message with the text get_gemini_hint
\* returned; the earlier messages and the index stay, and get_gemini_hint
\* gets the incremented level and the transcript as it was before.
C15_HintAppendsTwo ==
  [][(event' = "hint" /\ HintAllowed(hint_level)) =>
       LET n    == Len(chat_history)
           text == CurrentProblem(current_problem_index, Df).problem_text
       IN  /\ hint_level' = hint_level + 1
           /\ current_problem_index' = current_problem_index
           /\ Len(chat_history') = n + 2
           /\ SubSeq(chat_history', 1, n) = chat_history
           /\ chat_history'[n + 1] = Message("user", StuckMarker)
           /\ \E remote \in RemoteOutcomes :
                /\ chat_history'[n + 2] =
                     Message("assistant",
                       GetGeminiHint(api_key, text, chat_history,
                                     hint_level + 1, remote).text)
                /\ request' =
                     GetGeminiHint(api_key, text, chat_history,
                                   hint_level + 1, remote).request]_vars

\* the Submit Answer button can be clicked
SubmitEnabled ==
  ENABLED (\E outcome \in Reads(cache, sheet_url), answer_text \in Texts :
             SubmitAnswer(outcome, answer_text))

\* C16: a submission, correct or not, changes neither hint_level, nor the
\* transcript, nor the index; after an incorrect one the learner can submit
\* again, with no limit on the attempts.
C16_SubmitFrame ==
  /\ [](notice = "try_again" => SubmitEnabled)
  /\ [][event' = "submit" =>
          /\ hint_level' = hint_level
          /\ chat_history' = chat_history
          /\ current_problem_index' = current_problem_index]_vars

C16_Witness ==
  /\ event = "submit" /\ notice = "try_again" /\ controls
  /\ hint_level = MaxHints /\ Len(chat_history) = 2 * MaxHints

\* C17 (as claimed): whenever a request is sent, the transcript it replays
\* holds only messages of hint requests about the problem named in its final
\* message.
C17_TranscriptIsAboutCurrentProblem ==
  [][request'.sent =>
       chat_about \subseteq
         {CurrentProblem(current_problem_index', Df').problem_text}]_vars

\* C18 (as claimed): while the problem set is empty the page offers neither
\* Get Hint, nor Submit Answer, nor Next Problem; and the run that first
\* finds a non-empty problem set offers Get Hint and Submit Answer again.
C18_EmptySetHaltsUntilReload ==
  /\ [](Empty(Df) => (~controls /\ ~next_button))
  /\ [][(Empty(Df) /\ ~Empty(Df')) => controls']_vars

\* C19 (as claimed): the cache never answers a load with a remembered
\* failure, and it answers the load of a locator that succeeded before with
\* the same problem set.
C19_CacheHoldsOnlySuccesses ==
  [][(event' = "reload" /\ cache[sheet_url'].cached) =>
       /\ ~cache[sheet_url'].error
       /\ Df' = cache[sheet_url'].df]_vars

\* C20 (as claimed): in the states between user events (here: those left by
\* an event other than a Get Hint click, whose run may have been cut short
\* by that event) the transcript has 2 * hint_level messages, alternately
\* of the student and of the coach, starting with the student.
C20_TranscriptMatchesHintLevel ==
  event # "hint" =>
    /\ Len(chat_history) = 2 * hint_level
    /\ \A k \in 1..Len(chat_history) :
         chat_history[k].role = (IF k % 2 = 1 THEN "user" ELSE "assistant")
    /\ (hint_level = 0 <=> chat_history = <<>>)

=============================================================================
